---- MODULE Spec2Model ----
(***************************************************************************)
(* State-machine model of the weathercloud-api client (src/index.ts).      *)
(*                                                                         *)
(* Every public operation is an async function: it runs synchronously up   *)
(* to an await, is suspended, and is resumed by the event loop.  One       *)
(* action of the model is one such synchronous segment of one invocation.  *)
(* Invocations ("tasks") interleave at their awaits only.                  *)
(*                                                                         *)
(* Units: temperatures are whole degrees, cloudsHeight is held in          *)
(* hundredths of a metre (124.69 * d is 12469 * d hundredths), so that the *)
(* arithmetic of the source stays exact over the integers.                 *)
(***************************************************************************)
EXTENDS Integers, Sequences, FiniteSets, TLC

VARIABLES
    cookies,   \* Session Store: the current cookie set
    creds,     \* Session Store: remembered credentials [mail, password]
    pc,        \* per task: the await the invocation is suspended at
    op,        \* per task: the public operation invoked
    arg,       \* per task: the arguments of the invocation
    data,      \* per task: payloads received so far (values, update, profile)
    seen,      \* per task: the cookie list getCookie() returned to the check
    sent,      \* per task: what the last request of the invocation carried
    ncalls,    \* per task: network calls issued by the invocation
    url,       \* per task: the url local of getTop
    result,    \* per task: what the invocation handed to its caller
    started    \* number of invocations made so far

vars == <<cookies, creds, pc, op, arg, data, seen, sent, ncalls, url, result, started>>

(* ------------------------------ bounds --------------------------------- *)
NumTasks == 2
MaxCalls == 3
MaxIdLen == 11

Tasks == 1..NumTasks

(* --------------------------- program constants ------------------------- *)
IdDigits == 10
ColdLimit == -40
HeightFactor == 12469
FogTH == 15000
BarTH1 == 1005
BarTH2 == 1010
BarTH3 == 1015
RainTH1 == 2
RainTH2 == 15
HumMax == 100
ChillBelow == 10
HeatAbove == 26
RedirectStatus == 302

(* ------------------------------ helpers -------------------------------- *)
Max(a, b) == IF a >= b THEN a ELSE b

None == "none"

\* A thrown condition and a returned value, as the outcome of a segment.
Throw(cause) == [kind |-> "throw", cause |-> cause, value |-> None]
Return(value) == [kind |-> "return", cause |-> None, value |-> value]

\* What the caller observes: a value handed back ("return") or a rejected
\* promise ("raise").  shape tells the value's form, body its content.
Value(shape, error, body) ==
    [kind |-> "return", shape |-> shape, error |-> error, body |-> body]
Raised(cause) ==
    [kind |-> "raise", shape |-> None, error |-> cause, body |-> None]
NoResult == [kind |-> None, shape |-> None, error |-> None, body |-> None]

(* ---------------------- identifiers (weatherCloudId) ------------------- *)
Digit == {"0", "1", "2", "3", "4", "5", "6", "7", "8", "9"}
DigitAt(i) == IF i % 2 = 0 THEN "4" ELSE "7"

\* n digits; n characters of which the last (resp. first) is a letter.
AllDigits(n) == [i \in 1..n |-> DigitAt(i)]
LetterLast(n) == [i \in 1..n |-> IF i = n THEN "d" ELSE DigitAt(i)]
LetterFirst(n) == [i \in 1..n |-> IF i = 1 THEN "d" ELSE DigitAt(i)]

Ids == {AllDigits(n) : n \in 0..MaxIdLen}
         \cup {LetterLast(n) : n \in 1..MaxIdLen}
         \cup {LetterFirst(n) : n \in 1..MaxIdLen}

\* /^\d{10}$/.test(id)
TenDigits(id) == Len(id) = IdDigits /\ \A i \in 1..Len(id) : id[i] \in Digit

\* variant: the pattern without its $ anchor (ten leading digits)
InvalidIdAlt(id) == Len(id) = 0 \/ (Len(id) >= IdDigits /\ \A i \in 1..IdDigits : id[i] \in Digit)
\* !id || /^\d{10}$/.test(id)
InvalidId(id) == Len(id) = 0 \/ TenDigits(id)

(* ------------------------------ payloads ------------------------------- *)
\* What fetchData hands back: a transport failure, or a decoded JSON value.
\* A JSON value is null, an object (keys: the marker fields it has) or an
\* array (items: per element the keys it has).
NoFields == [temp |-> 0, dew |-> 0, bar |-> 0, rainrate |-> 0, hum |-> 0,
             wspd |-> 0, epoch |-> 0, update |-> 0]
Payload(fail, kind, keys, isarr, items, favs, f) ==
    [fail |-> fail, kind |-> kind, keys |-> keys, isarr |-> isarr,
     items |-> items, favs |-> favs, f |-> f]
Failure == Payload(TRUE, None, {}, FALSE, <<>>, <<>>, NoFields)
Null == Payload(FALSE, "null", {}, FALSE, <<>>, <<>>, NoFields)
NoData == Payload(FALSE, None, {}, FALSE, <<>>, <<>>, NoFields)
\* an object: keys it has; f its numeric fields; items / favs the values of
\* its devices / favorites keys, isarr whether devices is an array
Obj(keys, f) == Payload(FALSE, "object", keys, FALSE, <<>>, <<>>, f)
DevObj(keys, isarr, items, favs) == Payload(FALSE, "object", keys, isarr, items, favs, NoFields)
Arr(items) == Payload(FALSE, "array", {}, FALSE, items, <<>>, NoFields)
\* an element of a list: a device (id, value of the sort key) or a status row
Item(id, val, hasdate) == [id |-> id, val |-> val, hasdate |-> hasdate]

\* key in payload: a TypeError on null, otherwise whether the key is there.
InThrows(p) == p.kind = "null"
HasKey(p, k) == p.kind = "object" /\ k \in p.keys
\* !data
Falsy(p) == p.kind = "null"

Sample(temp, dew, bar, rainrate, hum, wspd, epoch) ==
    [temp |-> temp, dew |-> dew, bar |-> bar, rainrate |-> rainrate,
     hum |-> hum, wspd |-> wspd, epoch |-> epoch, update |-> 0]
UpdateFields(update) == [NoFields EXCEPT !.update = update]

(* ----------------------- Weather Derivation Engine --------------------- *)
\* variant: the cutoff taken as >= -40
CloudsHeightAlt(temp, dew) ==
    IF temp >= ColdLimit /\ dew >= ColdLimit
    THEN Max(0, HeightFactor * (temp - dew)) ELSE -1
\* (data.temp > -40 && data.dew > -40) ? Math.max(0, 124.69*(temp-dew)) : -1
CloudsHeight(temp, dew) ==
    IF temp > ColdLimit /\ dew > ColdLimit
    THEN Max(0, HeightFactor * (temp - dew)) ELSE -1

\* the validity check: true when the sample is rejected with "Invalid data"
InvalidData(s, cloudsHeight) ==
    s.bar < 0 \/ s.rainrate < 0 \/ cloudsHeight < 0 \/ s.hum < 0 \/ s.hum > HumMax

\* variant: the fog overlay applied in both branches
WeatherAvgAlt(s, cloudsHeight) ==
    LET base == IF s.bar < BarTH1 THEN "cloud"
                ELSE IF s.bar < BarTH2 THEN "change"
                ELSE IF s.bar < BarTH3 THEN "few" ELSE "clear"
        rain == IF s.rainrate < RainTH1 THEN "light"
                ELSE IF s.rainrate < RainTH2 THEN "moderate" ELSE "heavy"
        both == IF s.rainrate = 0 THEN base ELSE rain
    IN  IF cloudsHeight < FogTH THEN both \o "-fog" ELSE both
\* the condition label
WeatherAvg(s, cloudsHeight) ==
    IF s.rainrate = 0
    THEN LET base == IF s.bar < BarTH1 THEN "cloud"
                     ELSE IF s.bar < BarTH2 THEN "change"
                     ELSE IF s.bar < BarTH3 THEN "few" ELSE "clear"
         IN  IF cloudsHeight < FogTH THEN base \o "-fog" ELSE base
    ELSE IF s.rainrate < RainTH1 THEN "light"
         ELSE IF s.rainrate < RainTH2 THEN "moderate" ELSE "heavy"

\* chillFn and heatFn are external pure functions: kept as symbolic terms.
chillFn(temp, wspd) == [fn |-> "chill", a |-> temp, b |-> wspd]
heatFn(temp, hum) == [fn |-> "heat", a |-> temp, b |-> hum]
Feel(s) ==
    IF s.temp < ChillBelow THEN chillFn(s.temp, s.wspd)
    ELSE IF s.temp > HeatAbove THEN heatFn(s.temp, s.hum)
    ELSE [fn |-> "temp", a |-> s.temp, b |-> 0]

(* --------------------------- Device List Parser ------------------------ *)
\* stable insertion of d into a list sorted ascending by val
RECURSIVE InsertSorted(_, _)
InsertSorted(d, list) ==
    IF list = <<>> THEN <<d>>
    ELSE IF d.val < Head(list).val THEN <<d>> \o list
    ELSE <<Head(list)>> \o InsertSorted(d, Tail(list))

RECURSIVE SortByVal(_)
SortByVal(list) ==
    IF list = <<>> THEN <<>>
    ELSE InsertSorted(list[Len(list)], SortByVal(SubSeq(list, 1, Len(list) - 1)))

\* parseDevicesList(devices, sortKey): sortKey omitted keeps the remote order
parseDevicesList(devices, sortKey) ==
    IF sortKey = None THEN devices ELSE SortByVal(devices)

(* ------------------------------ Session Store -------------------------- *)
NoCreds == [mail |-> "", password |-> ""]

\* getCookie(): the current cookie set
getCookie == cookies

\* A part of a Set-Cookie header: a name=value pair, or a bare attribute.
Part(pair, name) == [pair |-> pair, name |-> name]

\* resp.headers.getSetCookie().join("; ").split("; ")
RECURSIVE Flatten(_)
Flatten(headers) ==
    IF headers = <<>> THEN <<>> ELSE Head(headers) \o Flatten(Tail(headers))
JoinSplit(headers) ==
    IF Flatten(headers) = <<>> THEN <<Part(FALSE, "")>> ELSE Flatten(headers)

\* setCookies(raw, mail, password): the cookies it parses out of raw
Parsed(raw) == {raw[i].name : i \in {j \in 1..Len(raw) : raw[j].pair}}
\* its return value, and the Session Store it leaves
setCookiesAccepts(raw) == Parsed(raw) # {}
setCookiesStore(raw, mail, password) ==
    IF setCookiesAccepts(raw)
    THEN [cookies |-> Parsed(raw), creds |-> [mail |-> mail, password |-> password]]
    ELSE [cookies |-> cookies, creds |-> creds]

(* ------------------------- Public Query Operations --------------------- *)
OpFetchWeather == "fetchWeather"
OpStationStatus == "getStationStatus"
OpStatistics == "getStatistics"
OpNearest == "getNearest"
OpTop == "getTop"
OpOwn == "getOwn"
OpLogin == "login"
OpClear == "clear"
GatedOps == {OpStationStatus, OpOwn}

ErrInvalidId == "invalid ID"
ErrFailedToFetch == "Failed to fetch"
ErrInvalidData == "Invalid data"
ErrSession == "Session required!"
ErrPeriod == "Period required for popular ranking"
ErrType == "TypeError"
ErrTransport == "transport failure"

\* variant: a catch that lets a TypeError through
TryCatchAlt(o, outcome) ==
    IF outcome.kind = "throw"
    THEN IF outcome.cause = ErrType THEN Raised(outcome.cause)
         ELSE IF o = OpNearest THEN Value("errorlist", outcome.cause, None)
         ELSE Value("error", outcome.cause, None)
    ELSE Value("success", None, outcome.value)
\* the catch clause of an operation: { error: err }, [ { error: err } ] for
\* getNearest
TryCatch(o, outcome) ==
    IF outcome.kind = "throw"
    THEN IF o = OpNearest THEN Value("errorlist", outcome.cause, None)
         ELSE Value("error", outcome.cause, None)
    ELSE Value("success", None, outcome.value)

\* login has no catch clause: a throw rejects the promise it returned
NoCatch(outcome) ==
    IF outcome.kind = "throw" THEN Raised(outcome.cause)
    ELSE Value("bool", None, outcome.value)

\* the three marker checks, left to right with || short-circuit
Markers(d1, d2, d3) ==
    IF InThrows(d1) THEN Throw(ErrType)
    ELSE IF ~HasKey(d1, "temp") THEN Throw(ErrFailedToFetch)
    ELSE IF InThrows(d2) THEN Throw(ErrType)
    ELSE IF ~HasKey(d2, "update") THEN Throw(ErrFailedToFetch)
    ELSE IF InThrows(d3) THEN Throw(ErrType)
    ELSE IF ~HasKey(d3, "observer") THEN Throw(ErrFailedToFetch)
    ELSE Return(TRUE)

\* Math.round(update / 60)
RoundDiv60(update) == (update + 30) \div 60

\* the report: weather without epoch plus the derived fields, the update
\* section, the profile passed through (the time-of-day string, which
\* depends on the host's time zone, is left out)
FullReport(d1, d2, d3) ==
    LET s == d1.f
        h == CloudsHeight(s.temp, s.dew)
    IN  [weather |-> [temp |-> s.temp, dew |-> s.dew, bar |-> s.bar,
                      rainrate |-> s.rainrate, hum |-> s.hum, wspd |-> s.wspd,
                      cloudsHeight |-> h, weatherAvg |-> WeatherAvg(s, h),
                      feel |-> Feel(s)],
         update |-> [update |-> d2.f.update,
                     lastUpdateMinutes |-> RoundDiv60(d2.f.update),
                     updateTime |-> s.epoch],
         profile |-> d3.keys]

\* fetchWeather from the marker checks to its return
WeatherBody(d1, d2, d3) ==
    IF Markers(d1, d2, d3).kind = "throw" THEN Markers(d1, d2, d3)
    ELSE IF InvalidData(d1.f, CloudsHeight(d1.f.temp, d1.f.dew)) THEN Throw(ErrInvalidData)
    ELSE Return(FullReport(d1, d2, d3))

\* getStationStatus after its fetch
StationStatusBody(d) ==
    IF Falsy(d) \/ d.kind # "array" THEN Throw(ErrFailedToFetch)
    ELSE IF d.items = <<>> THEN Throw(ErrType)
    ELSE IF ~d.items[1].hasdate THEN Throw(ErrFailedToFetch)
    ELSE Return(d.items)

\* getStatistics after its fetch
StatisticsBody(d) ==
    IF Falsy(d) \/ ~HasKey(d, "temp_current") THEN Throw(ErrFailedToFetch)
    ELSE Return(d.keys)

\* getNearest and getTop after their fetch
DevicesBody(d, sortKey) ==
    IF Falsy(d) \/ ~HasKey(d, "devices") \/ ~d.isarr THEN Throw(ErrFailedToFetch)
    ELSE Return(parseDevicesList(d.items, sortKey))

\* getOwn after its fetch
OwnBody(d) ==
    IF Falsy(d) \/ ~HasKey(d, "devices") \/ ~HasKey(d, "favorites") THEN Throw(ErrFailedToFetch)
    ELSE Return([devices |-> parseDevicesList(d.items, None),
                 favorites |-> parseDevicesList(d.favs, None)])

\* the sort key getTop passes on
TopDataType(definer) ==
    IF definer = "newest" THEN "age"
    ELSE IF definer = "popular" THEN "views" ELSE definer

AfterFetch(o, a, d) ==
    IF o = OpStationStatus THEN StationStatusBody(d)
    ELSE IF o = OpStatistics THEN StatisticsBody(d)
    ELSE IF o = OpNearest THEN DevicesBody(d, "distance")
    ELSE IF o = OpTop THEN DevicesBody(d, TopDataType(a.definer))
    ELSE OwnBody(d)

(* ------------------------------- state --------------------------------- *)
NoArg == [id |-> <<>>, definer |-> None, period |-> None,
          mail |-> "", password |-> "", store |-> FALSE]
NoPayloads == [values |-> NoData, update |-> NoData, profile |-> NoData]

Init ==
    /\ cookies = {}
    /\ creds = NoCreds
    /\ pc = [t \in Tasks |-> "idle"]
    /\ op = [t \in Tasks |-> None]
    /\ arg = [t \in Tasks |-> NoArg]
    /\ data = [t \in Tasks |-> NoPayloads]
    /\ seen = [t \in Tasks |-> {}]
    /\ sent = [t \in Tasks |-> {}]
    /\ ncalls = [t \in Tasks |-> 0]
    /\ url = [t \in Tasks |-> <<>>]
    /\ result = [t \in Tasks |-> NoResult]
    /\ started = 0

\* a caller invokes operation o with arguments a on a free task
Invoke(t, o, a) ==
    /\ pc[t] = "idle"
    /\ started < MaxCalls
    /\ started' = started + 1
    /\ op' = [op EXCEPT ![t] = o]
    /\ arg' = [arg EXCEPT ![t] = a]

\* the invocation settles: its promise resolves or rejects with r
Settle(t, r) ==
    /\ pc' = [pc EXCEPT ![t] = "done"]
    /\ result' = [result EXCEPT ![t] = r]

\* fetchData(...) is called: the request goes out with the stored cookies
\* and the invocation is suspended at await label
IssueFetch(t, label) ==
    /\ pc' = [pc EXCEPT ![t] = label]
    /\ ncalls' = [ncalls EXCEPT ![t] = @ + 1]
    /\ sent' = [sent EXCEPT ![t] = cookies]

(* ------------------------------ fetchWeather --------------------------- *)
FetchWeatherCall(t, id) ==
    /\ Invoke(t, OpFetchWeather, [NoArg EXCEPT !.id = id])
    /\ IF InvalidId(id)
       THEN /\ Settle(t, TryCatch(OpFetchWeather, Throw(ErrInvalidId)))
            /\ UNCHANGED <<ncalls, sent>>
       ELSE /\ IssueFetch(t, "fw_values")
            /\ UNCHANGED result
    /\ UNCHANGED <<cookies, creds, data, seen, url>>

\* await fetchData(values) resumes; the last-update request goes out
FetchWeatherValues(t, r) ==
    /\ pc[t] = "fw_values"
    /\ IF r.fail
       THEN /\ Settle(t, TryCatch(OpFetchWeather, Throw(ErrTransport)))
            /\ UNCHANGED <<data, ncalls, sent>>
       ELSE /\ data' = [data EXCEPT ![t].values = r]
            /\ IssueFetch(t, "fw_update")
            /\ UNCHANGED result
    /\ UNCHANGED <<cookies, creds, op, arg, seen, url, started>>

\* await fetchData(ajaxupdatedate) resumes; the profile request goes out
FetchWeatherUpdate(t, r) ==
    /\ pc[t] = "fw_update"
    /\ IF r.fail
       THEN /\ Settle(t, TryCatch(OpFetchWeather, Throw(ErrTransport)))
            /\ UNCHANGED <<data, ncalls, sent>>
       ELSE /\ data' = [data EXCEPT ![t].update = r]
            /\ IssueFetch(t, "fw_profile")
            /\ UNCHANGED result
    /\ UNCHANGED <<cookies, creds, op, arg, seen, url, started>>

\* await fetchData(ajaxprofile) resumes; checks, derivation, reassembly
FetchWeatherProfile(t, r) ==
    /\ pc[t] = "fw_profile"
    /\ IF r.fail
       THEN /\ Settle(t, TryCatch(OpFetchWeather, Throw(ErrTransport)))
            /\ UNCHANGED data
       ELSE /\ data' = [data EXCEPT ![t].profile = r]
            /\ Settle(t, TryCatch(OpFetchWeather,
                                  WeatherBody(data[t].values, data[t].update, r)))
    /\ UNCHANGED <<cookies, creds, op, arg, seen, sent, ncalls, url, started>>

(* ------------------- getStationStatus and getOwn (gated) --------------- *)
\* the call up to await getCookie(): getCookie has read the Session Store
GatedCall(t, o, id) ==
    /\ o \in GatedOps
    /\ Invoke(t, o, [NoArg EXCEPT !.id = id])
    /\ seen' = [seen EXCEPT ![t] = getCookie]
    /\ pc' = [pc EXCEPT ![t] = "gt_cookie"]
    /\ UNCHANGED <<cookies, creds, data, sent, ncalls, url, result>>

\* variant: the check written as length < 0
SessionMissingAlt(list) == Cardinality(list) < 0
\* (await getCookie()).length < 1
SessionMissing(list) == Cardinality(list) < 1

\* await getCookie() resumes: the length check, then the request
GatedCheck(t) ==
    /\ pc[t] = "gt_cookie"
    /\ IF SessionMissing(seen[t])
       THEN /\ Settle(t, TryCatch(op[t], Throw(ErrSession)))
            /\ UNCHANGED <<ncalls, sent>>
       ELSE /\ IssueFetch(t, "gt_fetch")
            /\ UNCHANGED result
    /\ UNCHANGED <<cookies, creds, op, arg, data, seen, url, started>>

\* await fetchData(...) resumes
GatedFetched(t, r) ==
    /\ pc[t] = "gt_fetch"
    /\ IF r.fail
       THEN /\ Settle(t, TryCatch(op[t], Throw(ErrTransport)))
            /\ UNCHANGED data
       ELSE /\ data' = [data EXCEPT ![t].values = r]
            /\ Settle(t, TryCatch(op[t], AfterFetch(op[t], arg[t], r)))
    /\ UNCHANGED <<cookies, creds, op, arg, seen, sent, ncalls, url, started>>

(* ---------------------- getStatistics and getNearest ------------------- *)
OpenCall(t, o, id) ==
    /\ o \in {OpStatistics, OpNearest}
    /\ Invoke(t, o, [NoArg EXCEPT !.id = id])
    /\ IssueFetch(t, "op_fetch")
    /\ UNCHANGED <<cookies, creds, data, seen, url, result>>

(* --------------------------------- getTop ------------------------------ *)
BaseUrl(definer, countryCode) == <<"page", definer, "country", countryCode>>

\* variant: the period demanded of the wrong ranking
PeriodMissingAlt(definer, period) == definer = "newest" /\ period = None
\* definer === "popular" and !period
PeriodMissing(definer, period) == definer = "popular" /\ period = None

\* the call up to await fetchData(url), or up to the throw
GetTopCall(t, definer, countryCode, period) ==
    /\ Invoke(t, OpTop, [NoArg EXCEPT !.definer = definer, !.period = period])
    /\ IF PeriodMissing(definer, period)
       THEN /\ url' = [url EXCEPT ![t] = BaseUrl(definer, countryCode)]
            /\ Settle(t, TryCatch(OpTop, Throw(ErrPeriod)))
            /\ UNCHANGED <<ncalls, sent>>
       ELSE /\ url' = [url EXCEPT ![t] =
                         IF definer = "popular"
                         THEN BaseUrl(definer, countryCode) \o <<"period", period>>
                         ELSE BaseUrl(definer, countryCode)]
            /\ IssueFetch(t, "op_fetch")
            /\ UNCHANGED result
    /\ UNCHANGED <<cookies, creds, data, seen>>

\* await fetchData(...) resumes in getStatistics, getNearest or getTop
OpenFetched(t, r) ==
    /\ pc[t] = "op_fetch"
    /\ IF r.fail
       THEN /\ Settle(t, TryCatch(op[t], Throw(ErrTransport)))
            /\ UNCHANGED data
       ELSE /\ data' = [data EXCEPT ![t].values = r]
            /\ Settle(t, TryCatch(op[t], AfterFetch(op[t], arg[t], r)))
    /\ UNCHANGED <<cookies, creds, op, arg, seen, sent, ncalls, url, started>>

(* ---------------------------------- login ------------------------------ *)
SignInResp(fail, status, headers) == [fail |-> fail, status |-> status, headers |-> headers]

\* the call up to await fetch(signin)
LoginCall(t, mail, password, storeCredentials) ==
    /\ Invoke(t, OpLogin, [NoArg EXCEPT !.mail = mail, !.password = password,
                                         !.store = storeCredentials])
    /\ pc' = [pc EXCEPT ![t] = "lg_signin"]
    /\ ncalls' = [ncalls EXCEPT ![t] = @ + 1]
    /\ UNCHANGED <<cookies, creds, data, seen, sent, url, result>>

\* what login stores: the credentials, or blanks
Store(a) == IF a.store THEN [mail |-> a.mail, password |-> a.password] ELSE NoCreds

\* login after the sign-in POST: the status check, then setCookies
LoginOutcome(a, r) ==
    IF r.fail THEN Throw(ErrTransport)
    ELSE IF r.status # RedirectStatus THEN Return(FALSE)
    ELSE Return(setCookiesAccepts(JoinSplit(r.headers)))

\* variant: setCookies called before the status check
LoginStoreAlt(a, r) ==
    IF r.fail THEN [cookies |-> cookies, creds |-> creds]
    ELSE setCookiesStore(JoinSplit(r.headers), Store(a).mail, Store(a).password)
\* the Session Store login leaves behind
LoginStore(a, r) ==
    IF r.fail \/ r.status # RedirectStatus THEN [cookies |-> cookies, creds |-> creds]
    ELSE setCookiesStore(JoinSplit(r.headers), Store(a).mail, Store(a).password)

\* await fetch(signin) resumes
LoginSignedIn(t, r) ==
    /\ pc[t] = "lg_signin"
    /\ Settle(t, NoCatch(LoginOutcome(arg[t], r)))
    /\ cookies' = LoginStore(arg[t], r).cookies
    /\ creds' = LoginStore(arg[t], r).creds
    /\ UNCHANGED <<op, arg, data, seen, sent, ncalls, url, started>>

(* ---------------------------------- clear ------------------------------ *)
\* the Session Store's clear(): synchronous, empties the store
Clear(t) ==
    /\ Invoke(t, OpClear, NoArg)
    /\ cookies' = {}
    /\ creds' = NoCreds
    /\ Settle(t, Value("void", None, None))
    /\ UNCHANGED <<data, seen, sent, ncalls, url>>

(* ------------------------------- the caller ---------------------------- *)
\* the caller has taken the result; the task is free for another call
Collect(t) ==
    /\ pc[t] = "done"
    /\ pc' = [pc EXCEPT ![t] = "idle"]
    /\ op' = [op EXCEPT ![t] = None]
    /\ arg' = [arg EXCEPT ![t] = NoArg]
    /\ data' = [data EXCEPT ![t] = NoPayloads]
    /\ seen' = [seen EXCEPT ![t] = {}]
    /\ sent' = [sent EXCEPT ![t] = {}]
    /\ ncalls' = [ncalls EXCEPT ![t] = 0]
    /\ url' = [url EXCEPT ![t] = <<>>]
    /\ result' = [result EXCEPT ![t] = NoResult]
    /\ UNCHANGED <<cookies, creds, started>>

(* ------------------------------ input sets ----------------------------- *)
SomeSample == Sample(20, 10, 1012, 0, 50, 3, 120)
ColdSample == Sample(-40, -45, 1012, 0, 50, 3, 120)
OkValues == Obj({"temp"}, SomeSample)
OkUpdate == Obj({"update"}, UpdateFields(95))
OkProfile == Obj({"observer"}, NoFields)

ValuesSome == {Failure, Null, Obj({}, NoFields), OkValues, Obj({"temp"}, ColdSample)}
UpdateSome == {Failure, Null, Obj({}, NoFields), OkUpdate}
ProfileSome == {Failure, Null, Obj({}, NoFields), OkProfile}

Devs == <<Item(1, 5, FALSE), Item(2, 3, FALSE), Item(3, 5, FALSE)>>
OkStatus == Arr(<<Item(1, 0, TRUE)>>)
OkStatistics == Obj({"temp_current"}, NoFields)
OkDevices == DevObj({"devices"}, TRUE, Devs, <<>>)
OkOwn == DevObj({"devices", "favorites"}, TRUE, Devs, Devs)
ListPayloads ==
    {Failure, Null, Obj({}, NoFields), OkStatistics,
     DevObj({"devices"}, FALSE, <<>>, <<>>), OkDevices, OkOwn,
     Arr(<<>>), OkStatus, Arr(<<Item(1, 0, FALSE)>>)}

Definers == {"newest", "followers", "popular"}
Periods == {None, "day"}

SessionHeader(name) == <<Part(TRUE, name), Part(FALSE, "HttpOnly")>>
SignInResps ==
    {SignInResp(TRUE, 0, <<>>),
     SignInResp(FALSE, 200, <<SessionHeader("sid1")>>),
     SignInResp(FALSE, RedirectStatus, <<>>),
     SignInResp(FALSE, RedirectStatus, <<<<Part(FALSE, "HttpOnly")>>>>),
     SignInResp(FALSE, RedirectStatus, <<SessionHeader("sid1")>>),
     SignInResp(FALSE, RedirectStatus, <<SessionHeader("sid2"), SessionHeader("lang")>>)}

\* the sample grid: every threshold of the derivation, from both sides
Temps == {ColdLimit - 1, ColdLimit, ColdLimit + 1, 20}
Dews == {ColdLimit - 1, ColdLimit, ColdLimit + 1, 18, 19}
Bars == {-1, 0, BarTH1 - 1, BarTH1, BarTH2 - 1, BarTH2, BarTH3 - 1, BarTH3}
RainRates == {-1, 0, 1, RainTH1, RainTH2 - 1, RainTH2}
Hums == {-1, 0, HumMax, HumMax + 1}
ValuesGrid ==
    {Obj({"temp"}, Sample(t, d, b, r, h, 3, 120)) :
        t \in Temps, d \in Dews, b \in Bars, r \in RainRates, h \in Hums}
        \cup {Failure, Null, Obj({}, NoFields)}

(* ---------------------------- specifications --------------------------- *)
\* Spec: concurrent invocations of every operation on the shared Session
\* Store, interleaved at their awaits; one failing and one usable outcome
\* per fetch, every outcome of the sign-in.
Next ==
    \/ \E t \in Tasks, id \in {AllDigits(IdDigits), LetterLast(3)} : FetchWeatherCall(t, id)
    \/ \E t \in Tasks, r \in {Failure, OkValues} : FetchWeatherValues(t, r)
    \/ \E t \in Tasks, r \in {OkUpdate} : FetchWeatherUpdate(t, r)
    \/ \E t \in Tasks, r \in {OkProfile} : FetchWeatherProfile(t, r)
    \/ \E t \in Tasks, o \in GatedOps : GatedCall(t, o, LetterLast(3))
    \/ \E t \in Tasks : GatedCheck(t)
    \/ \E t \in Tasks, r \in {Failure, OkOwn} : GatedFetched(t, r)
    \/ \E t \in Tasks, o \in {OpStatistics, OpNearest} : OpenCall(t, o, LetterLast(3))
    \/ \E t \in Tasks, p \in Periods : GetTopCall(t, "popular", "FR", p)
    \/ \E t \in Tasks, r \in {Null, OkDevices} : OpenFetched(t, r)
    \/ \E t \in Tasks, s \in BOOLEAN : LoginCall(t, "m", "p", s)
    \/ \E t \in Tasks, r \in SignInResps : LoginSignedIn(t, r)
    \/ \E t \in Tasks : Clear(t)
    \/ \E t \in Tasks : Collect(t)

Spec == Init /\ [][Next]_vars

\* SpecSeq: one caller awaiting each call before the next, every operation,
\* every kind of fetch outcome.
SeqNext ==
    \E t \in {1} :
        \/ \E id \in Ids : FetchWeatherCall(t, id)
        \/ \E r \in ValuesSome : FetchWeatherValues(t, r)
        \/ \E r \in UpdateSome : FetchWeatherUpdate(t, r)
        \/ \E r \in ProfileSome : FetchWeatherProfile(t, r)
        \/ \E o \in GatedOps : GatedCall(t, o, LetterLast(3))
        \/ GatedCheck(t)
        \/ \E r \in ListPayloads : GatedFetched(t, r)
        \/ \E o \in {OpStatistics, OpNearest} : OpenCall(t, o, LetterLast(3))
        \/ \E d \in Definers, p \in Periods : GetTopCall(t, d, "FR", p)
        \/ \E r \in ListPayloads : OpenFetched(t, r)
        \/ \E s \in BOOLEAN : LoginCall(t, "m", "p", s)
        \/ \E r \in SignInResps : LoginSignedIn(t, r)
        \/ Clear(t)
        \/ Collect(t)

SpecSeq == Init /\ [][SeqNext]_vars

\* SpecWeather: fetchWeather alone, over the sample grid.
WeatherNext ==
    \E t \in {1} :
        \/ \E id \in {AllDigits(IdDigits), LetterLast(3)} : FetchWeatherCall(t, id)
        \/ pc[t] = "fw_values" /\ \E r \in ValuesGrid : FetchWeatherValues(t, r)
        \/ \E r \in UpdateSome : FetchWeatherUpdate(t, r)
        \/ \E r \in ProfileSome : FetchWeatherProfile(t, r)
        \/ Collect(t)

SpecWeather == Init /\ [][WeatherNext]_vars

(* ------------------------------ properties ----------------------------- *)
NonLoginOps == {OpFetchWeather, OpStationStatus, OpStatistics, OpNearest, OpTop, OpOwn}
Done(t) == pc[t] = "done"
ErrorShape(o) == IF o = OpNearest THEN "errorlist" ELSE "error"

\* the invocation met a failure: it never fetched, its last fetch failed or
\* gave null, or getStationStatus was given an empty array
MetFailure(t) ==
    \/ ncalls[t] = 0
    \/ data[t].values.kind \in {None, "null"}
    \/ op[t] = OpStationStatus /\ data[t].values.kind = "array" /\ data[t].values.items = <<>>

\* C1: a non-login operation never raises to its caller: it returns a value,
\* a success value or {error: cause} ([{error: cause}] for getNearest), and the
\* error value whenever a fetch failed or the payload was null or empty.
C1_NeverRaises ==
    \A t \in Tasks :
        (Done(t) /\ op[t] \in NonLoginOps) =>
            /\ result[t].kind = "return"
            /\ result[t].shape \in {"success", ErrorShape(op[t])}
            /\ result[t].shape = "success" => result[t].error = None
            /\ result[t].shape # "success" => result[t].error # None
            /\ MetFailure(t) => result[t].shape = ErrorShape(op[t])

\* getStationStatus was handed an empty array and returned {error: TypeError}
C1_Witness ==
    \E t \in Tasks :
        /\ Done(t) /\ op[t] = OpStationStatus
        /\ data[t].values = Arr(<<>>)
        /\ result[t].kind = "return" /\ result[t].shape = "error"
        /\ result[t].error = ErrType

\* C2: login never raises: every failure, a transport failure of the sign-in
\* POST included, comes back as false, and true comes back only when the
\* status was 302 and setCookies accepted a cookie (the store is then
\* non-empty).
C2_LoginNeverRaises ==
    \A t \in Tasks :
        (Done(t) /\ op[t] = OpLogin) =>
            /\ result[t].kind = "return"
            /\ result[t].body \in BOOLEAN
            /\ result[t].body = TRUE => cookies # {}

\* a step in which login returns true, a step in which clear runs
LoginTrueStep(t) ==
    /\ pc[t] = "lg_signin" /\ pc'[t] = "done"
    /\ result'[t].kind = "return" /\ result'[t].body = TRUE
ClearStep(t) == pc[t] = "idle" /\ pc'[t] = "done" /\ op'[t] = OpClear

\* C3: the Session Store (cookies and remembered credentials) changes only
\* in a step in which login returns true or clear runs; a call that settles
\* with a failure value leaves it as it was.
C3_StoreFrame ==
    [][(cookies' # cookies \/ creds' # creds) =>
            \E t \in Tasks : LoginTrueStep(t) \/ ClearStep(t)]_vars

\* login returned false while the store held a session, which is kept
C3_Witness ==
    \E t \in Tasks :
        /\ Done(t) /\ op[t] = OpLogin
        /\ result[t].kind = "return" /\ result[t].body = FALSE
        /\ cookies # {} /\ creds # NoCreds

\* C4: a session-gated operation called while the cookie set is empty
\* issues no network call and returns {error: Session required!}.
C4_SessionRequired ==
    \A t \in Tasks :
        (op[t] \in GatedOps /\ seen[t] = {}) =>
            /\ ncalls[t] = 0
            /\ pc[t] \in {"gt_cookie", "done"}
            /\ Done(t) => /\ result[t].kind = "return"
                          /\ result[t].shape = "error"
                          /\ result[t].error = ErrSession

\* getOwn settled with Session required! and no network call, although a
\* login has filled the store since the call
C4_Witness ==
    \E t \in Tasks :
        /\ Done(t) /\ op[t] = OpOwn /\ seen[t] = {}
        /\ result[t].error = ErrSession /\ ncalls[t] = 0
        /\ cookies # {}

\* the identifier is empty or exactly ten digits
EmptyOrTenDigits(id) ==
    id = <<>> \/ (Len(id) = 10 /\ \A i \in 1..10 : id[i] \in Digit)

\* C5: fetchWeather with an id that is empty or exactly 10 digits returns
\* {error: invalid ID} and issues no fetch; for every other id the first
\* fetch is issued.
C5_InvalidId ==
    \A t \in Tasks :
        op[t] = OpFetchWeather =>
            IF EmptyOrTenDigits(arg[t].id)
            THEN /\ Done(t) /\ ncalls[t] = 0
                 /\ result[t].shape = "error" /\ result[t].error = ErrInvalidId
            ELSE /\ ncalls[t] >= 1
                 /\ result[t].error # ErrInvalidId

\* a ten-digit id was rejected without a fetch
C5_Witness ==
    \E t \in Tasks :
        /\ op[t] = OpFetchWeather /\ Done(t)
        /\ Len(arg[t].id) = 10
        /\ result[t].error = ErrInvalidId /\ ncalls[t] = 0

\* C6 as stated: getTop("popular", country, undefined) fails with
\* PeriodRequired before any URL is constructed and without a network call.
C6_NoUrlBuilt ==
    \A t \in Tasks :
        (op[t] = OpTop /\ Done(t) /\ result[t].error = ErrPeriod) =>
            /\ url[t] = <<>>
            /\ ncalls[t] = 0

\* C6 amended: getTop("popular", country, undefined) fails with
\* PeriodRequired without a network call and before the period segment is
\* appended; the base URL page/popular/country/<country> is already built.
C6_BaseUrlOnly ==
    \A t \in Tasks :
        (op[t] = OpTop /\ arg[t].definer = "popular" /\ arg[t].period = None) =>
            /\ Done(t)
            /\ result[t].kind = "return" /\ result[t].shape = "error"
            /\ result[t].error = ErrPeriod
            /\ ncalls[t] = 0
            /\ url[t] = <<"page", "popular", "country", "FR">>

\* getTop("popular", "FR", undefined) has settled with PeriodRequired
C6_Witness ==
    \E t \in Tasks :
        /\ op[t] = OpTop /\ Done(t)
        /\ arg[t].definer = "popular" /\ arg[t].period = None
        /\ result[t].error = ErrPeriod /\ Len(url[t]) = 4

\* the three markers are in the payloads the invocation received
AllMarkers(t) ==
    /\ HasKey(data[t].values, "temp")
    /\ HasKey(data[t].update, "update")
    /\ HasKey(data[t].profile, "observer")

\* C7: fetchWeather never returns a partial report: a report is returned only
\* after all three fetches, with all three markers present; a failed fetch
\* or a missing marker gives {error: Failed to fetch} or {error: the fetch's
\* cause}.
C7_NoPartialReport ==
    \A t \in Tasks :
        (op[t] = OpFetchWeather /\ Done(t) /\ ncalls[t] >= 1) =>
            /\ result[t].shape = "success" => (AllMarkers(t) /\ ncalls[t] = 3)
            /\ ~AllMarkers(t) =>
                   /\ result[t].shape = "error"
                   /\ result[t].error \in {ErrFailedToFetch, ErrTransport}

\* C8: with the three markers present, temp <= -40 or dew <= -40 gives the
\* sentinel height -1 and {error: Invalid data}; a report returned as a
\* success has bar >= 0, rainrate >= 0, 0 <= hum <= 100, cloudsHeight >= 0,
\* and a sample violating one of these is rejected with Invalid data.
C8_InvalidData ==
    \A t \in Tasks :
        (op[t] = OpFetchWeather /\ Done(t) /\ AllMarkers(t)) =>
            LET s == data[t].values.f
                cold == s.temp <= -40 \/ s.dew <= -40
                bad == s.bar < 0 \/ s.rainrate < 0 \/ s.hum < 0 \/ s.hum > 100
            IN  /\ cold => CloudsHeight(s.temp, s.dew) = -1
                /\ (cold \/ bad) => /\ result[t].shape = "error"
                                    /\ result[t].error = ErrInvalidData
                /\ result[t].shape = "success" =>
                       /\ result[t].body.weather.bar >= 0
                       /\ result[t].body.weather.rainrate >= 0
                       /\ result[t].body.weather.hum \in 0..100
                       /\ result[t].body.weather.cloudsHeight >= 0

\* a sample with temp exactly -40 and nothing else wrong was rejected
C8_Witness ==
    \E t \in Tasks :
        /\ op[t] = OpFetchWeather /\ Done(t) /\ AllMarkers(t)
        /\ data[t].values.f.temp = -40 /\ data[t].values.f.dew = -39
        /\ data[t].values.f.bar >= 0 /\ data[t].values.f.rainrate >= 0
        /\ data[t].values.f.hum \in 0..100
        /\ result[t].error = ErrInvalidData

\* the label the claim gives for a validated sample
Label(bar, rainrate, cloudsHeight) ==
    IF rainrate = 0
    THEN (IF bar < 1005 THEN "cloud"
          ELSE IF bar < 1010 THEN "change"
          ELSE IF bar < 1015 THEN "few" ELSE "clear")
         \o (IF cloudsHeight < 15000 THEN "-fog" ELSE "")
    ELSE IF rainrate < 2 THEN "light"
         ELSE IF rainrate < 15 THEN "moderate" ELSE "heavy"

\* C9: for a sample that passes validation, weatherAvg is cloud / change /
\* few / clear by pressure when rainrate is 0, with -fog appended exactly
\* when cloudsHeight < 150, and light / moderate / heavy by rain rate when
\* rainrate > 0, never with -fog.
C9_WeatherAvg ==
    \A t \in Tasks :
        (op[t] = OpFetchWeather /\ Done(t) /\ result[t].shape = "success") =>
            LET w == result[t].body.weather
            IN  /\ w.weatherAvg = Label(w.bar, w.rainrate, w.cloudsHeight)
                /\ w.rainrate > 0 =>
                       w.weatherAvg \in {"light", "moderate", "heavy"}

\* rain over a cloud base under 150 m: the label is light, without -fog
C9_Witness ==
    \E t \in Tasks :
        /\ op[t] = OpFetchWeather /\ Done(t) /\ result[t].shape = "success"
        /\ result[t].body.weather.rainrate = 1
        /\ result[t].body.weather.cloudsHeight < 15000
        /\ result[t].body.weather.weatherAvg = "light"

\* C10: a session-gated operation never sends its request while the cookie
\* set is empty: the request carries the non-empty session its check saw.
C10_NoEmptySend ==
    \A t \in Tasks :
        (op[t] \in GatedOps /\ ncalls[t] > 0) =>
            /\ sent[t] # {}
            /\ seen[t] # {}

====
